---- MODULE Spec2Model ----
(***************************************************************************)
(* Model of the recurrent network of engine/libnn/src/rnn/mod.rs:          *)
(* RecurrentLayer (state threading, per-step histories, BPTT, updates) and *)
(* RecurrentNetwork (forward_propagate, train_one_sequence, predict).      *)
(*                                                                         *)
(* Weight (f32) is modelled by integers; vectors are sequences.  Step      *)
(* indices are 0-based as in the source, sequence positions are index + 1. *)
(* The dense sublayer, the output layer and the activation functions live  *)
(* in the crate root, outside rnn/; they are modelled from their           *)
(* description (identity activation, squared-error cost, as the tests of   *)
(* rnn/test.rs configure them).                                            *)
(***************************************************************************)
EXTENDS Integers, Sequences, FiniteSets, TLC

\* ---- dimensions (rnn/test.rs builds every network with these) ----
InputCount == 1
OutputCount == 1
StateSize == 1

\* ---- bounds of the exploration ----
MaxLen == 3
MaxWork == 5
MaxLayerCalls == 4

InputVals == {-1, 1}
TargetVals == {1}
LearningRates == {1}

\* ---- vectors ----
Max(a, b) == IF a >= b THEN a ELSE b

Zeros(n) == [i \in 1..n |-> 0]

RECURSIVE SumSeq(_)
SumSeq(s) == IF Len(s) = 0 THEN 0 ELSE s[1] + SumSeq(Tail(s))

Dot(w, x) == SumSeq([i \in 1..Len(w) |-> w[i] * x[i]])

Concat(a, b) == a \o b

Reverse(s) == [i \in 1..Len(s) |-> s[Len(s) + 1 - i]]

Last(s) == s[Len(s)]

\* a slot write that always pushes, whether or not the slot exists
SetOrPushAlwaysPushes(buf, index, v) == Append(buf, v)

\* Vec slot write used by every history buffer: overwrite the slot at `index`
\* when it exists (get_mut returns Some), push at the end otherwise.
SetOrPush(buf, index, v) ==
    IF index < Len(buf) THEN [buf EXCEPT ![index + 1] = v] ELSE Append(buf, v)

\* ---- activation function (IDENTITY) ----
ActivationApply(x) == x
ActivationDerivative(x) == 1

\* ---- dense sublayer ----
\* init_weights and init_biases are the initialiser callables, as functions of the
\* 0-based indices they are called with
DenseNew(output_count, input_count, init_weights, init_biases) ==
    [ weights |-> [o \in 1..output_count |->
                     [i \in 1..input_count |-> init_weights[o - 1, i - 1]]],
      biases |-> [o \in 1..output_count |-> init_biases[o - 1]],
      outputs |-> Zeros(output_count),
      neuron_gradients |-> Zeros(output_count) ]

DenseForwardPropagate(layer, inputs) ==
    [layer EXCEPT !.outputs =
        [o \in 1..Len(layer.weights) |->
            ActivationApply(Dot(layer.weights[o], inputs) + layer.biases[o])]]

\* gradient of neuron j: the downstream gradients projected through column j
\* of the downstream weights, times the activation derivative at its output
DenseComputeGradients(layer, output_weights, gradient_of_output_neurons) ==
    [layer EXCEPT !.neuron_gradients =
        [j \in 1..Len(layer.neuron_gradients) |->
            SumSeq([o \in 1..Len(gradient_of_output_neurons) |->
                      output_weights[o][j] * gradient_of_output_neurons[o]])
            * ActivationDerivative(layer.outputs[j])]]

\* ---- output layer ----
OutputLayerNew(init_weights, input_count, output_count) ==
    [ weights |-> [o \in 1..output_count |->
                     [i \in 1..input_count |-> init_weights[o - 1, i - 1]]],
      outputs |-> Zeros(output_count),
      costs |-> Zeros(output_count),
      neuron_gradients |-> Zeros(output_count) ]

OutputForwardPropagate(layer, inputs) ==
    [layer EXCEPT !.outputs =
        [o \in 1..Len(layer.weights) |-> ActivationApply(Dot(layer.weights[o], inputs))]]

OutputComputeCosts(layer, expected) ==
    [layer EXCEPT !.costs =
        [o \in 1..Len(layer.outputs) |->
            (expected[o] - layer.outputs[o]) * (expected[o] - layer.outputs[o])]]

OutputComputeGradients(layer, expected) ==
    [layer EXCEPT !.neuron_gradients =
        [o \in 1..Len(layer.outputs) |->
            (expected[o] - layer.outputs[o]) * ActivationDerivative(layer.outputs[o])]]

OutputUpdateWeights(layer, inputs, learning_rate) ==
    [layer EXCEPT !.weights =
        [o \in 1..Len(layer.weights) |->
            [k \in 1..Len(layer.weights[o]) |->
                layer.weights[o][k] + learning_rate * layer.neuron_gradients[o] * inputs[k]]]]

\* ---- RecurrentLayer ----
RecurrentLayerNew(output_count, input_count, init_recurrent_weights, init_recurrent_biases, init_output_weights, init_output_biases, state_size) ==
    [ state |-> Zeros(state_size),
      recurrent_tree |-> DenseNew(state_size, input_count + state_size,
                                  init_recurrent_weights, init_recurrent_biases),
      output_tree |-> DenseNew(output_count, input_count + state_size,
                               init_output_weights, init_output_biases),
      combined_inputs_scratch |-> Zeros(input_count + state_size),
      sequence_inputs |-> << >>,
      prev_states |-> << >>,
      computed_recurrent_gradients |-> << >>,
      computed_output_gradients |-> << >> ]

\* reset that leaves the state of the previous sequence in place
LayerResetKeepsState(l) == l

LayerReset(l) == [l EXCEPT !.state = Zeros(Len(l.state))]

\* the scratch buffer filled from the state the step produces, not the one it read
LayerForwardPropagateScratchAfterStep(l, inputs, index_in_sequence) ==
    [l EXCEPT !.combined_inputs_scratch =
                  Concat(DenseForwardPropagate(l.recurrent_tree, Concat(l.state, inputs)).outputs,
                         inputs),
              !.output_tree = DenseForwardPropagate(@, Concat(l.state, inputs)),
              !.recurrent_tree = DenseForwardPropagate(@, Concat(l.state, inputs)),
              !.prev_states = SetOrPush(@, index_in_sequence, l.state),
              !.sequence_inputs = SetOrPush(@, index_in_sequence, inputs),
              !.state = DenseForwardPropagate(l.recurrent_tree, Concat(l.state, inputs)).outputs]

LayerForwardPropagate(l, inputs, index_in_sequence) ==
    [l EXCEPT !.combined_inputs_scratch = Concat(l.state, inputs),
              !.output_tree = DenseForwardPropagate(@, Concat(l.state, inputs)),
              !.recurrent_tree = DenseForwardPropagate(@, Concat(l.state, inputs)),
              !.prev_states = SetOrPush(@, index_in_sequence, l.state),
              !.sequence_inputs = SetOrPush(@, index_in_sequence, inputs),
              !.state = DenseForwardPropagate(l.recurrent_tree,
                                              Concat(l.state, inputs)).outputs]

LayerGetOutputs(l) == l.output_tree.outputs

\* Every operation below returns [l |-> layer, panicked |-> BOOLEAN]: the layer as
\* the call left it, and whether the call ended in a panic (unwrap of None, index
\* out of bounds) instead of returning.
Ok(l) == [l |-> l, panicked |-> FALSE]
Panic(l) == [l |-> l, panicked |-> TRUE]

\* the columns that multiply the input taken instead of those of the state
RecurrentlyConnectedWeightsInputColumns(l) ==
    [r \in 1..Len(l.recurrent_tree.weights) |->
        SubSeq(l.recurrent_tree.weights[r],
               Len(l.recurrent_tree.weights[r]) - Len(l.state) + 1,
               Len(l.recurrent_tree.weights[r]))]

\* the columns of recurrent_tree's weight rows that multiply the state
RecurrentlyConnectedWeights(l) ==
    [r \in 1..Len(l.recurrent_tree.weights) |->
        SubSeq(l.recurrent_tree.weights[r], 1, Len(l.state))]

\* first block of compute_gradients: fresh gradient histories, then the last step,
\* which takes output_gradient_of_output_neurons.last() and has no recursive term
ComputeGradientsLastStep(l, output_output_weights, output_gradient_of_output_neurons) ==
    LET cleared == [l EXCEPT !.computed_output_gradients = << >>,
                             !.computed_recurrent_gradients = << >>]
    IN  IF Len(output_gradient_of_output_neurons) = 0 THEN Panic(cleared)
        ELSE LET g == Last(output_gradient_of_output_neurons)
                 out == DenseComputeGradients(l.output_tree, output_output_weights, g)
                 rec == DenseComputeGradients(l.recurrent_tree, output_output_weights, g)
             IN  Ok([cleared EXCEPT
                        !.output_tree = out,
                        !.recurrent_tree = rec,
                        !.computed_output_gradients = << out.neuron_gradients >>,
                        !.computed_recurrent_gradients = << rec.neuron_gradients >>])

\* body of the backwards loop for step i: histories are still in reverse order,
\* so the gradient of step i + 1 is the last entry pushed
ComputeGradientsStep(l, output_output_weights, output_gradient_of_output_neurons, recurrent_recursvely_connected_weights, i) ==
    LET g == output_gradient_of_output_neurons[i + 1]
        out == DenseComputeGradients(l.output_tree, output_output_weights, g)
        rec1 == DenseComputeGradients(l.recurrent_tree, output_output_weights, g)
        recurrent_to_output_gradients == rec1.neuron_gradients
        rec2 == DenseComputeGradients(rec1, recurrent_recursvely_connected_weights,
                                      Last(l.computed_recurrent_gradients))
        combined == [k \in 1..Len(recurrent_to_output_gradients) |->
                        recurrent_to_output_gradients[k] + rec2.neuron_gradients[k]]
    IN  [l EXCEPT !.output_tree = out,
                  !.recurrent_tree = rec2,
                  !.computed_output_gradients = Append(@, out.neuron_gradients),
                  !.computed_recurrent_gradients = Append(@, combined)]

\* for i in (0..sequence_len).rev().skip(1): steps i, i - 1, ..., 0
RECURSIVE ComputeGradientsLoop(_, _, _, _, _)
ComputeGradientsLoop(l, output_output_weights, output_gradient_of_output_neurons, recurrent_recursvely_connected_weights, i) ==
    IF i < 0 THEN Ok(l)
    ELSE IF i >= Len(output_gradient_of_output_neurons) THEN Panic(l)
    ELSE ComputeGradientsLoop(
            ComputeGradientsStep(l, output_output_weights,
                                 output_gradient_of_output_neurons,
                                 recurrent_recursvely_connected_weights, i),
            output_output_weights, output_gradient_of_output_neurons,
            recurrent_recursvely_connected_weights, i - 1)

\* the backwards loop run on the outcome of the last step
ComputeGradientsRest(first, output_output_weights, output_gradient_of_output_neurons, sequence_len) ==
    IF first.panicked THEN first
    ELSE ComputeGradientsLoop(first.l, output_output_weights,
                              output_gradient_of_output_neurons,
                              RecurrentlyConnectedWeights(first.l), sequence_len - 2)

\* both histories put into chronological order
ReverseGradients(rest) ==
    IF rest.panicked THEN rest
    ELSE Ok([rest.l EXCEPT !.computed_output_gradients = Reverse(@),
                           !.computed_recurrent_gradients = Reverse(@)])

\* compute_gradients that leaves both histories in reverse-time order
LayerComputeGradientsNoReverse(l, output_output_weights, output_gradient_of_output_neurons, sequence_len) ==
    ComputeGradientsRest(
        ComputeGradientsLastStep(l, output_output_weights,
                                 output_gradient_of_output_neurons),
        output_output_weights, output_gradient_of_output_neurons, sequence_len)

LayerComputeGradients(l, output_output_weights, output_gradient_of_output_neurons, sequence_len) ==
    ReverseGradients(
        ComputeGradientsRest(
            ComputeGradientsLastStep(l, output_output_weights,
                                     output_gradient_of_output_neurons),
            output_output_weights, output_gradient_of_output_neurons, sequence_len))

\* weight += learning_rate * neuron_gradient * combined_inputs_scratch[weight_ix]
AddGradients(weights, neuron_gradients, learning_rate, scratch) ==
    [n \in 1..Len(weights) |->
        IF n <= Len(neuron_gradients)
        THEN [k \in 1..Len(weights[n]) |->
                weights[n][k] + learning_rate * neuron_gradients[n] * scratch[k]]
        ELSE weights[n]]

\* combined inputs rebuilt without ever copying the state before the step
UpdateWeightsScratchNoState(l, step_ix) ==
    Concat(SubSeq(l.combined_inputs_scratch, 1, Len(l.state)),
           l.sequence_inputs[step_ix + 1])

\* combined inputs rebuilt for step_ix: at step 0 the state part keeps the zeros
\* of the fill, later steps copy prev_states[step_ix] over it
UpdateWeightsScratch(l, step_ix) ==
    Concat(IF step_ix = 0
           THEN SubSeq(l.combined_inputs_scratch, 1, Len(l.state))
           ELSE l.prev_states[step_ix + 1],
           l.sequence_inputs[step_ix + 1])

UpdateWeightsStep(l, learning_rate, step_ix) ==
    LET scratch == UpdateWeightsScratch(l, step_ix)
    IN  [l EXCEPT !.combined_inputs_scratch = scratch,
                  !.output_tree.weights =
                      AddGradients(@, l.computed_output_gradients[step_ix + 1],
                                   learning_rate, scratch),
                  !.recurrent_tree.weights =
                      AddGradients(@, l.computed_recurrent_gradients[step_ix + 1],
                                   learning_rate, scratch)]

RECURSIVE UpdateWeightsLoop(_, _, _, _)
UpdateWeightsLoop(l, learning_rate, step_ix, sequence_len) ==
    IF step_ix >= sequence_len THEN Ok(l)
    ELSE IF step_ix >= Len(l.sequence_inputs) THEN Panic(l)
    ELSE IF step_ix >= Len(l.computed_output_gradients)
    THEN Panic([l EXCEPT !.combined_inputs_scratch = UpdateWeightsScratch(l, step_ix)])
    ELSE UpdateWeightsLoop(UpdateWeightsStep(l, learning_rate, step_ix),
                           learning_rate, step_ix + 1, sequence_len)

LayerUpdateWeights(l, learning_rate, sequence_len) ==
    UpdateWeightsLoop([l EXCEPT !.combined_inputs_scratch = Zeros(Len(@))],
                      learning_rate, 0, sequence_len)

\* the same step also moving the recurrent_tree biases along their gradients
UpdateBiasesStepBothTrees(l, learning_rate, step_ix) ==
    [l EXCEPT !.output_tree.biases =
                  [n \in 1..Len(@) |->
                      @[n] + l.computed_output_gradients[step_ix + 1][n] * learning_rate],
              !.recurrent_tree.biases =
                  [n \in 1..Len(@) |->
                      @[n] + l.computed_recurrent_gradients[step_ix + 1][n] * learning_rate]]

UpdateBiasesStep(l, learning_rate, step_ix) ==
    [l EXCEPT !.output_tree.biases =
        [n \in 1..Len(@) |->
            @[n] + l.computed_output_gradients[step_ix + 1][n] * learning_rate]]

RECURSIVE UpdateBiasesLoop(_, _, _, _)
UpdateBiasesLoop(l, learning_rate, step_ix, sequence_len) ==
    IF step_ix >= sequence_len THEN Ok(l)
    ELSE IF step_ix >= Len(l.computed_output_gradients) THEN Panic(l)
    ELSE UpdateBiasesLoop(UpdateBiasesStep(l, learning_rate, step_ix),
                          learning_rate, step_ix + 1, sequence_len)

LayerUpdateBiases(l, learning_rate, sequence_len) ==
    UpdateBiasesLoop(l, learning_rate, 0, sequence_len)

\* ---- RecurrentNetwork ----
\* Option<T> is a sequence of length at most one: << >> is None, << v >> is Some(v).
IsSome(opt) == Len(opt) = 1
Unwrap(opt) == opt[1]

\* index sets the initialisers are called with
NeuronIndices == 0..(Max(StateSize, OutputCount) - 1)
WeightIndices == 0..(InputCount + StateSize - 1)

\* build_test_network: the trees' weights come from the given initialisers, every
\* bias starts at 0 and every weight of the output layer at 1
RecurrentNetworkNew(init_recurrent_weights, init_output_weights) ==
    [ recurrent_layer |->
          RecurrentLayerNew(OutputCount, InputCount,
                            init_recurrent_weights, [o \in NeuronIndices |-> 0],
                            init_output_weights, [o \in NeuronIndices |-> 0],
                            StateSize),
      output_layer |-> OutputLayerNew([o \in NeuronIndices, i \in WeightIndices |-> 1],
                                      InputCount, OutputCount),
      recurrent_layer_outputs |-> << >>,
      outputs |-> << >> ]

\* an absent target that leaves the gradient of the last supervised step in place
StepGradientsStale(output_layer, expected_output) ==
    IF IsSome(expected_output)
    THEN LET costed == OutputComputeCosts(output_layer, Unwrap(expected_output))
             graded == OutputComputeGradients(costed, Unwrap(expected_output))
         IN  [ output_layer |-> graded,
               cost |-> SumSeq(costed.costs),
               gradients |-> graded.neuron_gradients ]
    ELSE [ output_layer |-> output_layer,
           cost |-> 0,
           gradients |-> output_layer.neuron_gradients ]

\* the supervised part of one step: cost and gradient of a present target,
\* an all-zero gradient for an absent one
StepGradients(output_layer, expected_output) ==
    IF IsSome(expected_output)
    THEN LET costed == OutputComputeCosts(output_layer, Unwrap(expected_output))
             graded == OutputComputeGradients(costed, Unwrap(expected_output))
         IN  [ output_layer |-> graded,
               cost |-> SumSeq(costed.costs),
               gradients |-> graded.neuron_gradients ]
    ELSE [ output_layer |-> output_layer,
           cost |-> 0,
           gradients |-> Zeros(Len(output_layer.neuron_gradients)) ]

\* the supervised part of a step applied to the accumulator
ApplyStepGradients(acc, sg) ==
    [acc EXCEPT !.net.output_layer = sg.output_layer,
                !.total_costs = @ + sg.cost,
                !.output_gradients = Append(@, sg.gradients)]

\* second half of an iteration: nothing without an expected sequence, a panic
\* when the expected sequence has no entry at step_ix
NetSuperviseStep(acc, step_ix, expected_sequence) ==
    IF ~IsSome(expected_sequence) THEN acc
    ELSE IF step_ix >= Len(Unwrap(expected_sequence))
    THEN [acc EXCEPT !.panicked = TRUE]
    ELSE ApplyStepGradients(acc, StepGradients(acc.net.output_layer,
                                               Unwrap(expected_sequence)[step_ix + 1]))

\* the output layer run on the visible output of the step, both recorded at step_ix
NetRecordStep(net, rl, step_ix) ==
    [net EXCEPT
        !.recurrent_layer = rl,
        !.output_layer = OutputForwardPropagate(@, LayerGetOutputs(rl)),
        !.outputs = SetOrPush(@, step_ix,
                              OutputForwardPropagate(net.output_layer,
                                                     LayerGetOutputs(rl)).outputs),
        !.recurrent_layer_outputs = SetOrPush(@, step_ix, LayerGetOutputs(rl))]

\* one iteration of the loop of forward_propagate; acc carries the network, the
\* running total_costs and output_gradients
NetForwardStep(acc, example, step_ix, expected_sequence) ==
    NetSuperviseStep(
        [acc EXCEPT !.net =
            NetRecordStep(@, LayerForwardPropagate(acc.net.recurrent_layer,
                                                   example, step_ix), step_ix)],
        step_ix, expected_sequence)

RECURSIVE NetForwardLoop(_, _, _, _)
NetForwardLoop(acc, sequence, step_ix, expected_sequence) ==
    IF step_ix >= Len(sequence) \/ acc.panicked THEN acc
    ELSE NetForwardLoop(NetForwardStep(acc, sequence[step_ix + 1], step_ix,
                                       expected_sequence),
                        sequence, step_ix + 1, expected_sequence)

\* returns [net, total_costs, output_gradients, panicked]
NetForwardPropagate(net, sequence, expected_sequence) ==
    NetForwardLoop([ net |-> [net EXCEPT !.recurrent_layer = LayerReset(@)],
                     total_costs |-> 0,
                     output_gradients |-> << >>,
                     panicked |-> FALSE ],
                   sequence, 0, expected_sequence)

\* number of output-layer updates of train_one_sequence: for i in 0..self.outputs.len()
OutputUpdateCount(net, sequence) == Len(net.outputs)

\* the output-layer updates; t.update_inputs logs the input of every
\* update_weights call
RECURSIVE OutputUpdatesLoop(_, _, _, _)
OutputUpdatesLoop(t, i, count, learning_rate) ==
    IF i >= count THEN t
    ELSE OutputUpdatesLoop(
            [t EXCEPT !.net.output_layer =
                          OutputUpdateWeights(@, t.net.recurrent_layer_outputs[i + 1],
                                              learning_rate),
                      !.update_inputs =
                          Append(@, t.net.recurrent_layer_outputs[i + 1])],
            i + 1, count, learning_rate)

\* (total_cost / costs.len()) / sequence.len()
AverageCost(total_cost, neuron_count, sequence_len) ==
    (total_cost \div neuron_count) \div sequence_len

\* A training call in progress, t: the network, whether it has panicked, the value
\* returned (Some(cost) once it returned), the total cost and gradients of its
\* forward pass, and two logs: trace, the network after each phase in the order
\* the phases ran, and update_inputs.
TrainStart(net) ==
    [ net |-> net, panicked |-> FALSE, ret |-> << >>, trace |-> << >>,
      update_inputs |-> << >>, total_cost |-> 0, output_gradients |-> << >> ]

\* the outcome r = [l, panicked] of a RecurrentLayer operation taken into t
Logged(t, phase, r) ==
    [t EXCEPT !.net.recurrent_layer = r.l,
              !.panicked = r.panicked,
              !.trace = IF r.panicked THEN @
                        ELSE Append(@, [ phase |-> phase,
                                         net |-> [t.net EXCEPT !.recurrent_layer = r.l] ])]

ForwardLogged(t, f) ==
    [t EXCEPT !.net = f.net,
              !.panicked = f.panicked,
              !.total_cost = f.total_costs,
              !.output_gradients = f.output_gradients,
              !.trace = IF f.panicked THEN @
                        ELSE Append(@, [ phase |-> "forward_propagate", net |-> f.net ])]

TrainForward(t, sequence, expected_sequence) ==
    ForwardLogged(t, NetForwardPropagate(t.net, sequence, << expected_sequence >>))

TrainComputeGradients(t, sequence) ==
    IF t.panicked THEN t
    ELSE Logged(t, "compute_gradients",
                LayerComputeGradients(t.net.recurrent_layer, t.net.output_layer.weights,
                                      t.output_gradients, Len(sequence)))

OutputUpdatesLogged(u) ==
    [u EXCEPT !.trace = Append(@, [ phase |-> "output_layer.update_weights",
                                    net |-> u.net ])]

\* assert_eq!(outputs.len(), recurrent_layer_outputs.len()), then the updates
TrainOutputUpdates(t, sequence, learning_rate) ==
    IF t.panicked THEN t
    ELSE IF Len(t.net.outputs) # Len(t.net.recurrent_layer_outputs)
    THEN [t EXCEPT !.panicked = TRUE]
    ELSE OutputUpdatesLogged(
            OutputUpdatesLoop(t, 0, OutputUpdateCount(t.net, sequence), learning_rate))

TrainUpdateWeights(t, sequence, learning_rate) ==
    IF t.panicked THEN t
    ELSE Logged(t, "update_weights",
                LayerUpdateWeights(t.net.recurrent_layer, learning_rate, Len(sequence)))

TrainUpdateBiases(t, sequence, learning_rate) ==
    IF t.panicked THEN t
    ELSE Logged(t, "update_biases",
                LayerUpdateBiases(t.net.recurrent_layer, learning_rate, Len(sequence)))

TrainReturn(t, sequence) ==
    IF t.panicked THEN t
    ELSE [t EXCEPT !.ret = << AverageCost(t.total_cost, Len(t.net.output_layer.costs),
                                          Len(sequence)) >>]

\* the output layer updated before the recurrent layer's gradients are computed
TrainPhasesUpdateFirst(net, sequence, expected_sequence, learning_rate) ==
    TrainReturn(
      TrainUpdateBiases(
        TrainUpdateWeights(
          TrainComputeGradients(
            TrainOutputUpdates(
              TrainForward(TrainStart(net), sequence, expected_sequence),
              sequence, learning_rate),
            sequence),
          sequence, learning_rate),
        sequence, learning_rate),
      sequence)

\* the body of train_one_sequence after its length assertion: forward pass,
\* compute_gradients, output-layer updates, update_weights, update_biases, return
TrainPhases(net, sequence, expected_sequence, learning_rate) ==
    TrainReturn(
      TrainUpdateBiases(
        TrainUpdateWeights(
          TrainOutputUpdates(
            TrainComputeGradients(
              TrainForward(TrainStart(net), sequence, expected_sequence),
              sequence),
            sequence, learning_rate),
          sequence, learning_rate),
        sequence, learning_rate),
      sequence)

\* the length assertion made after the forward pass instead of first
TrainOneSequenceLateAssert(net, sequence, expected_sequence, learning_rate) ==
    IF Len(sequence) # Len(expected_sequence)
    THEN [TrainForward(TrainStart(net), sequence, expected_sequence)
            EXCEPT !.panicked = TRUE]
    ELSE TrainPhases(net, sequence, expected_sequence, learning_rate)

\* returns the training call t as it ended
TrainOneSequence(net, sequence, expected_sequence, learning_rate) ==
    IF Len(sequence) # Len(expected_sequence)
    THEN [TrainStart(net) EXCEPT !.panicked = TRUE]
    ELSE TrainPhases(net, sequence, expected_sequence, learning_rate)

\* &self.outputs[..sequence.len()] of the network f.net after the pass
PredictResult(f, sequence) ==
    [ net |-> f.net, result |-> SubSeq(f.net.outputs, 1, Len(sequence)) ]

\* returns [net, result]: the network after the pass and the slice returned
NetPredict(net, sequence) ==
    PredictResult(NetForwardPropagate(net, sequence, << >>), sequence)

\* ---- the state machine ----
VARIABLES
    net,        \* the RecurrentNetwork
    panicked,   \* a call ended in a panic: the network is not used again
    last,       \* the most recent call: its arguments, the network at its entry,
                \* what it returned and logged
    calls,      \* calls made
    steps,      \* RecurrentLayer.forward_propagate steps run since construction
    longest     \* most steps run by a single forward pass so far

vars == << net, panicked, last, calls, steps, longest >>

InputVectors == [1..InputCount -> InputVals]
Targets == [1..OutputCount -> TargetVals]
TargetOptions == { << >> } \cup { << t >> : t \in Targets }
SequencesOfLen(n) == [1..n -> InputVectors]
InputSequences == UNION { SequencesOfLen(n) : n \in 0..MaxLen }
AllNone(m) == [i \in 1..m |-> << >>]
\* expected sequences tried with a sequence of length n: every one of that
\* length, and unsupervised ones of every other length
ExpectedFor(n) == [1..n -> TargetOptions] \cup { AllNone(m) : m \in 0..MaxLen }

\* weight initialisers: the row they give every neuron of a tree
InitRows == { [i \in 1..(InputCount + StateSize) |-> i],
              [i \in 1..(InputCount + StateSize) |-> InputCount + StateSize + 1 - i] }

Call(op, sequence, expected, learning_rate, entry) ==
    [ op |-> op, sequence |-> sequence, expected |-> expected,
      learning_rate |-> learning_rate, entry |-> entry,
      total_cost |-> 0, output_gradients |-> << >>, ret |-> << >>,
      trace |-> << >>, update_inputs |-> << >>, result |-> << >>,
      index |-> 0, sequence_len |-> 0 ]

Init ==
    /\ \E rw \in InitRows, ow \in InitRows :
          net = RecurrentNetworkNew([o \in NeuronIndices, i \in WeightIndices |-> rw[i + 1]],
                                    [o \in NeuronIndices, i \in WeightIndices |-> ow[i + 1]])
    /\ panicked = FALSE
    /\ last = Call("new", << >>, << >>, 0, << >>)
    /\ calls = 0
    /\ steps = 0
    /\ longest = 0

CanCall(sequence) ==
    /\ ~panicked
    /\ calls + steps + 1 + Len(sequence) <= MaxWork

\* steps a forward pass runs: all of them, or up to and including the step whose
\* target index is out of bounds
StepsRun(sequence, expected_sequence) ==
    IF IsSome(expected_sequence) /\ Len(Unwrap(expected_sequence)) < Len(sequence)
    THEN Len(Unwrap(expected_sequence)) + 1
    ELSE Len(sequence)

Counted(n) ==
    /\ calls' = calls + 1
    /\ steps' = steps + n
    /\ longest' = Max(longest, n)

\* network.forward_propagate(&sequence, Some(&expected)) or (&sequence, None)
ForwardPropagate ==
    \E sequence \in InputSequences :
    \E expected_sequence \in { << >> } \cup { << e >> : e \in ExpectedFor(Len(sequence)) } :
        /\ CanCall(sequence)
        /\ \E f \in { NetForwardPropagate(net, sequence, expected_sequence) } :
               /\ net' = f.net
               /\ panicked' = f.panicked
               /\ last' = [Call("forward_propagate", sequence, expected_sequence, 0, net)
                             EXCEPT !.total_cost = f.total_costs,
                                    !.output_gradients = f.output_gradients]
        /\ Counted(StepsRun(sequence, expected_sequence))

\* network.train_one_sequence(&sequence, &expected, learning_rate)
Train ==
    \E sequence \in InputSequences :
    \E expected_sequence \in ExpectedFor(Len(sequence)) :
    \E learning_rate \in LearningRates :
        /\ CanCall(sequence)
        /\ \E t \in { TrainOneSequence(net, sequence, expected_sequence, learning_rate) } :
               /\ net' = t.net
               /\ panicked' = t.panicked
               /\ last' = [Call("train_one_sequence", sequence, << expected_sequence >>,
                                learning_rate, net)
                             EXCEPT !.ret = t.ret, !.trace = t.trace,
                                    !.update_inputs = t.update_inputs]
        /\ Counted(IF Len(sequence) = Len(expected_sequence) THEN Len(sequence) ELSE 0)

\* network.predict(&sequence)
Predict ==
    \E sequence \in InputSequences :
        /\ CanCall(sequence)
        /\ \E p \in { NetPredict(net, sequence) } :
               /\ net' = p.net
               /\ panicked' = FALSE
               /\ last' = [Call("predict", sequence, << >>, 0, net)
                             EXCEPT !.result = p.result]
        /\ Counted(Len(sequence))

Next == ForwardPropagate \/ Train \/ Predict

Spec == Init /\ [][Next]_vars

\* ---- the RecurrentLayer driven directly through its public methods ----
CanCallLayer == ~panicked /\ calls < MaxLayerCalls

GradientVectors == [1..OutputCount -> {1}]
GradientSequences == UNION { [1..n -> GradientVectors] : n \in 0..MaxLen }
DownstreamWeights == { [o \in 1..OutputCount |-> [j \in 1..OutputCount |-> 1]] }

\* layer.reset()
Reset ==
    /\ CanCallLayer
    /\ net' = [net EXCEPT !.recurrent_layer = LayerReset(@)]
    /\ last' = Call("layer.reset", << >>, << >>, 0, net)
    /\ calls' = calls + 1
    /\ UNCHANGED << panicked, steps, longest >>

\* layer.forward_propagate(&inputs, index_in_sequence), any index
LayerForward ==
    \E inputs \in InputVectors, index_in_sequence \in 0..MaxLen :
        /\ CanCallLayer
        /\ net' = [net EXCEPT !.recurrent_layer =
                      LayerForwardPropagate(@, inputs, index_in_sequence)]
        /\ last' = [Call("layer.forward_propagate", << inputs >>, << >>, 0, net)
                      EXCEPT !.index = index_in_sequence]
        /\ calls' = calls + 1
        /\ steps' = steps + 1
        /\ UNCHANGED << panicked, longest >>

\* layer.compute_gradients(&output_output_weights, &gradients, sequence_len)
LayerGradients ==
    \E output_output_weights \in DownstreamWeights :
    \E gradients \in GradientSequences :
    \E sequence_len \in { Len(gradients), Len(gradients) + 1 } :
        /\ CanCallLayer
        /\ \E g \in { LayerComputeGradients(net.recurrent_layer, output_output_weights,
                                              gradients, sequence_len) } :
               /\ net' = [net EXCEPT !.recurrent_layer = g.l]
               /\ panicked' = g.panicked
        /\ last' = [Call("layer.compute_gradients", << >>, << >>, 0, net)
                      EXCEPT !.output_gradients = gradients,
                             !.sequence_len = sequence_len]
        /\ calls' = calls + 1
        /\ UNCHANGED << steps, longest >>

\* layer.update_weights(learning_rate, sequence_len)
LayerWeights ==
    \E learning_rate \in LearningRates, sequence_len \in 0..MaxLen :
        /\ CanCallLayer
        /\ \E w \in { LayerUpdateWeights(net.recurrent_layer, learning_rate, sequence_len) } :
               /\ net' = [net EXCEPT !.recurrent_layer = w.l]
               /\ panicked' = w.panicked
        /\ last' = [Call("layer.update_weights", << >>, << >>, learning_rate, net)
                      EXCEPT !.sequence_len = sequence_len]
        /\ calls' = calls + 1
        /\ UNCHANGED << steps, longest >>

\* layer.update_biases(learning_rate, sequence_len)
LayerBiases ==
    \E learning_rate \in LearningRates, sequence_len \in 0..MaxLen :
        /\ CanCallLayer
        /\ \E b \in { LayerUpdateBiases(net.recurrent_layer, learning_rate, sequence_len) } :
               /\ net' = [net EXCEPT !.recurrent_layer = b.l]
               /\ panicked' = b.panicked
        /\ last' = [Call("layer.update_biases", << >>, << >>, learning_rate, net)
                      EXCEPT !.sequence_len = sequence_len]
        /\ calls' = calls + 1
        /\ UNCHANGED << steps, longest >>

NextLayer == Reset \/ LayerForward \/ LayerGradients \/ LayerWeights \/ LayerBiases

SpecLayer == Init /\ [][NextLayer]_vars

\* ---- what a forward pass computes, from the weights and biases alone ----
\* Everything below is a function of the parameters P and the input sequence:
\* no hidden state, scratch or history buffer of the network enters it.
Params(n) ==
    [ recurrent_weights |-> n.recurrent_layer.recurrent_tree.weights,
      recurrent_biases |-> n.recurrent_layer.recurrent_tree.biases,
      output_weights |-> n.recurrent_layer.output_tree.weights,
      output_biases |-> n.recurrent_layer.output_tree.biases,
      output_layer_weights |-> n.output_layer.weights ]

Affine(weights, biases, x) ==
    [o \in 1..Len(weights) |-> Dot(weights[o], x) + biases[o]]

\* hidden state held just before step i (0-based)
RECURSIVE StateBefore(_, _, _)
StateBefore(P, sequence, i) ==
    IF i = 0 THEN Zeros(StateSize)
    ELSE Affine(P.recurrent_weights, P.recurrent_biases,
                StateBefore(P, sequence, i - 1) \o sequence[i])

\* combined (state, input) vector of step i
CombinedAt(P, sequence, i) == StateBefore(P, sequence, i) \o sequence[i + 1]

\* visible output of the RecurrentLayer at step i
VisibleAt(P, sequence, i) ==
    Affine(P.output_weights, P.output_biases, CombinedAt(P, sequence, i))

\* output of the network at step i
OutputAt(P, sequence, i) ==
    [o \in 1..Len(P.output_layer_weights) |->
        Dot(P.output_layer_weights[o], VisibleAt(P, sequence, i))]

Returned(op) == last.op = op /\ ~panicked

\* C1: in every train_one_sequence call the output layer's update_weights runs
\* exactly sequence.len() times, the i-th time on the visible output that this
\* call's forward pass recorded at step i; nothing left at an index >=
\* sequence.len() by an earlier call is read.
C1_OutputUpdatesOncePerStep ==
    (last.op = "train_one_sequence" /\ Len(last.trace) >= 3) =>
        last.update_inputs =
            [i \in 1..Len(last.sequence) |->
                VisibleAt(Params(last.entry), last.sequence, i - 1)]

\* C2: predict returns sequence.len() output vectors that are a function of the
\* weights, the biases and the input sequence alone, whatever calls came before,
\* and changes no weight or bias.
C2_PredictDependsOnWeightsAndInput ==
    Returned("predict") =>
        /\ Len(last.result) = Len(last.sequence)
        /\ last.result = [i \in 1..Len(last.sequence) |->
                            OutputAt(Params(last.entry), last.sequence, i - 1)]
        /\ Params(net) = Params(last.entry)

C2_Witness ==
    /\ Returned("predict")
    /\ Len(last.sequence) >= 1
    /\ Len(last.entry.outputs) > Len(last.sequence)
    /\ last.entry.recurrent_layer.state # Zeros(StateSize)
    /\ \A o \in InitRows : Params(net).output_weights # << o >>

\* C3: train_one_sequence with sequence.len() # expected_sequence.len() ends in a
\* panic, and the whole network (state, histories, gradients, weights, biases)
\* is as it was before the call.
C3_LengthMismatchIsFatalAndChangesNothing ==
    (last.op = "train_one_sequence"
        /\ Len(last.sequence) # Len(Unwrap(last.expected))) =>
        /\ panicked
        /\ net = last.entry

C3_Witness ==
    /\ last.op = "train_one_sequence"
    /\ Len(last.sequence) >= 1
    /\ Len(Unwrap(last.expected)) > Len(last.sequence)
    /\ panicked
    /\ last.entry.recurrent_layer.state # Zeros(StateSize)

\* C4: RecurrentLayer.forward_propagate with a step index that skips ahead of
\* the history (index greater than its length) fails fast: the call does not
\* complete, and no history entry is recorded at another position.
C4_OutOfOrderIndexFailsFast ==
    (last.op = "layer.forward_propagate"
        /\ last.index > Len(last.entry.recurrent_layer.prev_states)) =>
        /\ panicked
        /\ net.recurrent_layer.prev_states = last.entry.recurrent_layer.prev_states
        /\ net.recurrent_layer.sequence_inputs = last.entry.recurrent_layer.sequence_inputs

\* ---- what a training call computes, from the parameters at its entry ----
IsPresent(expected_sequence, i) == IsSome(expected_sequence[i + 1])

\* gradient the output layer hands back for step i: target minus output when
\* the step is supervised, all-zero otherwise
TargetGradientAt(P, sequence, expected_sequence, i) ==
    IF IsPresent(expected_sequence, i)
    THEN [o \in 1..Len(P.output_layer_weights) |->
            Unwrap(expected_sequence[i + 1])[o] - OutputAt(P, sequence, i)[o]]
    ELSE Zeros(Len(P.output_layer_weights))

CostAt(P, sequence, expected_sequence, i) ==
    IF IsPresent(expected_sequence, i)
    THEN SumSeq([o \in 1..Len(P.output_layer_weights) |->
                    TargetGradientAt(P, sequence, expected_sequence, i)[o]
                    * TargetGradientAt(P, sequence, expected_sequence, i)[o]])
    ELSE 0

TotalCost(P, sequence, expected_sequence) ==
    SumSeq([i \in 1..Len(sequence) |-> CostAt(P, sequence, expected_sequence, i - 1)])

\* a gradient g projected back through the columns of a weight matrix
Project(weights, g, width) ==
    [j \in 1..width |-> SumSeq([o \in 1..Len(g) |-> weights[o][j] * g[o]])]

PhaseNames == [i \in 1..Len(last.trace) |-> last.trace[i].phase]

\* C5: train_one_sequence returns the pre-update cost (the total cost of the
\* forward pass under the entry weights and biases, divided by the number of
\* output neurons and by sequence.len()); its phases run in the order forward
\* pass, compute_gradients (on the output layer's weights not yet updated),
\* output-layer updates, update_weights, update_biases, and no weight or bias
\* changes before compute_gradients has finished.
C5_PreUpdateCostAndPhaseOrder ==
    Returned("train_one_sequence") =>
        LET P == Params(last.entry)
            sequence == last.sequence
            expected == Unwrap(last.expected)
            n == Len(sequence)
        IN  /\ last.ret = << (TotalCost(P, sequence, expected)
                                \div Len(P.output_layer_weights)) \div n >>
            /\ PhaseNames = << "forward_propagate", "compute_gradients",
                               "output_layer.update_weights", "update_weights",
                               "update_biases" >>
            /\ Params(last.trace[1].net) = P
            /\ Params(last.trace[2].net) = P
            /\ \A i \in 1..n :
                  last.trace[2].net.recurrent_layer.computed_output_gradients[i] =
                      Project(P.output_layer_weights,
                              TargetGradientAt(P, sequence, expected, i - 1), OutputCount)
            /\ Params(last.trace[3].net) =
                  [P EXCEPT !.output_layer_weights = Params(last.trace[3].net).output_layer_weights]
            /\ Params(last.trace[4].net).output_biases = P.output_biases
            /\ last.trace[5].net = net

C5_Witness ==
    /\ Returned("train_one_sequence")
    /\ Len(last.sequence) >= 2
    /\ last.ret # << 0 >>
    /\ Params(net).output_layer_weights # Params(last.entry).output_layer_weights
    /\ Params(net).recurrent_weights # Params(last.entry).recurrent_weights
    /\ Params(net).output_biases # Params(last.entry).output_biases

\* C6: forward_propagate with an expected sequence returns one gradient vector
\* per step, in step order; a step whose target is absent gets the all-zero
\* vector and adds nothing to the total cost, yet advances the hidden state and
\* records its outputs; the total cost is the sum of the output layer's costs
\* over the steps whose target is present.  Without an expected sequence the
\* cost is 0 and the gradient list is empty.
C6_UnsupervisedStepsAreZero ==
    Returned("forward_propagate") =>
        LET P == Params(last.entry)
            sequence == last.sequence
            n == Len(sequence)
        IN  IF IsSome(last.expected)
            THEN LET expected == Unwrap(last.expected)
                 IN  /\ Len(last.output_gradients) = n
                     /\ \A i \in 1..n :
                           /\ last.output_gradients[i] =
                                 TargetGradientAt(P, sequence, expected, i - 1)
                           /\ ~IsPresent(expected, i - 1) =>
                                 last.output_gradients[i] = Zeros(OutputCount)
                           /\ net.outputs[i] = OutputAt(P, sequence, i - 1)
                           /\ net.recurrent_layer_outputs[i] = VisibleAt(P, sequence, i - 1)
                     /\ net.recurrent_layer.state = StateBefore(P, sequence, n)
                     /\ last.total_cost = TotalCost(P, sequence, expected)
            ELSE /\ last.total_cost = 0
                 /\ last.output_gradients = << >>

C6_Witness ==
    /\ Returned("forward_propagate")
    /\ IsSome(last.expected)
    /\ Len(last.sequence) >= 3
    /\ IsPresent(Unwrap(last.expected), 0)
    /\ ~IsPresent(Unwrap(last.expected), 1)
    /\ IsPresent(Unwrap(last.expected), 2)
    /\ last.total_cost > 0
    /\ last.output_gradients[1] # Zeros(OutputCount)
    /\ net.recurrent_layer.state # Zeros(StateSize)

\* ---- BPTT, from the parameters at entry ----
StateColumns(P) ==
    [r \in 1..Len(P.recurrent_weights) |-> SubSeq(P.recurrent_weights[r], 1, StateSize)]

VecAdd(a, b) == [k \in 1..Len(a) |-> a[k] + b[k]]

\* gradient of recurrent_tree's neurons at step i of a sequence of length n
RECURSIVE RecurrentGradientAt(_, _, _, _)
RecurrentGradientAt(P, sequence, expected_sequence, i) ==
    LET output_path == Project(P.output_layer_weights,
                               TargetGradientAt(P, sequence, expected_sequence, i),
                               StateSize)
    IN  IF i = Len(sequence) - 1 THEN output_path
        ELSE VecAdd(output_path,
                    Project(StateColumns(P),
                            RecurrentGradientAt(P, sequence, expected_sequence, i + 1),
                            StateSize))

RanForward ==
    /\ ~panicked
    /\ last.op \in { "forward_propagate", "predict", "train_one_sequence" }

\* C7: after a sequence of length n >= 1 went through the network, whatever the
\* lengths of earlier sequences, sequence_inputs[i] is the i-th input of this
\* sequence and prev_states[i] the hidden state held just before its step i
\* (zero for i = 0); after the backward pass both gradient histories have
\* exactly n entries, entry i being the gradient of step i.
C7_HistoriesHoldTheCurrentSequence ==
    (RanForward /\ Len(last.sequence) >= 1) =>
        LET P == Params(last.entry)
            sequence == last.sequence
            n == Len(sequence)
            l == net.recurrent_layer
        IN  /\ \A i \in 1..n :
                  /\ l.sequence_inputs[i] = sequence[i]
                  /\ l.prev_states[i] = StateBefore(P, sequence, i - 1)
            /\ l.prev_states[1] = Zeros(StateSize)
            /\ last.op = "train_one_sequence" =>
                  LET expected == Unwrap(last.expected)
                  IN  /\ Len(l.computed_output_gradients) = n
                      /\ Len(l.computed_recurrent_gradients) = n
                      /\ \A i \in 1..n :
                            /\ l.computed_output_gradients[i] =
                                  Project(P.output_layer_weights,
                                          TargetGradientAt(P, sequence, expected, i - 1),
                                          OutputCount)
                            /\ l.computed_recurrent_gradients[i] =
                                  RecurrentGradientAt(P, sequence, expected, i - 1)

C7_Witness ==
    /\ Returned("train_one_sequence")
    /\ Len(last.sequence) = 1
    /\ Len(last.entry.recurrent_layer.prev_states) = 2
    /\ Len(last.entry.recurrent_layer.computed_output_gradients) = 2
    /\ last.entry.recurrent_layer.sequence_inputs[1] # last.sequence[1]
    /\ net.recurrent_layer.computed_output_gradients # << Zeros(OutputCount) >>

\* C8: at any point the length of the inputs-at-step and state-before-step
\* histories equals the number of forward steps processed since construction.
C8_HistoryLengthIsStepsProcessed ==
    /\ Len(net.recurrent_layer.sequence_inputs) = steps
    /\ Len(net.recurrent_layer.prev_states) = steps

\* C8 (amended): under RecurrentNetwork's forward passes the length of both
\* histories equals the number of steps of the longest single pass so far; a
\* step at an index already present overwrites its slot.
C8_HistoryLengthIsLongestPass ==
    /\ Len(net.recurrent_layer.sequence_inputs) = longest
    /\ Len(net.recurrent_layer.prev_states) = longest

C8_Witness ==
    /\ calls >= 2
    /\ longest >= 2
    /\ steps > longest
    /\ Len(last.sequence) >= 1
    /\ Len(last.sequence) < longest
    /\ RanForward

\* C9: compute_gradients implements the BPTT recurrence: the recurrent-neuron
\* gradient of the last step is the output-path gradient alone; that of every
\* earlier step i is its output-path gradient plus the projection of step
\* i + 1's recurrent-neuron gradient through the first state_size columns of
\* recurrent_tree's weight rows.
C9_BpttRecurrence ==
    Returned("train_one_sequence") =>
        LET P == Params(last.entry)
            sequence == last.sequence
            expected == Unwrap(last.expected)
            n == Len(sequence)
            g == net.recurrent_layer.computed_recurrent_gradients
            OutputPath(i) ==
                Project(P.output_layer_weights,
                        TargetGradientAt(P, sequence, expected, i), StateSize)
        IN  /\ g[n] = OutputPath(n - 1)
            /\ \A i \in 1..(n - 1) :
                  g[i] = VecAdd(OutputPath(i - 1),
                                Project(StateColumns(P), g[i + 1], StateSize))

C9_Witness ==
    /\ Returned("train_one_sequence")
    /\ Len(last.sequence) >= 3
    /\ LET P == Params(last.entry)
           g == net.recurrent_layer.computed_recurrent_gradients
           OutputPath(i) ==
               Project(P.output_layer_weights,
                       TargetGradientAt(P, last.sequence, Unwrap(last.expected), i),
                       StateSize)
       IN  /\ g[1] # OutputPath(0)
           /\ g[2] # OutputPath(1)
           /\ g[3] = OutputPath(2)
           /\ P.recurrent_weights[1][1] # P.recurrent_weights[1][2]

\* C10: update_weights(learning_rate, n) after a forward and backward pass over
\* n steps adds to every weight [neuron][k] of output_tree (recurrent_tree) the
\* sum over steps 0..n-1 of learning_rate * computed_output_gradients
\* (computed_recurrent_gradients) [step][neuron] * c[step][k], c[step] being the
\* combined (state-before-step, input) vector the forward pass used at that step.
C10_WeightUpdateSumsOverSteps ==
    Returned("train_one_sequence") =>
        LET P == Params(last.entry)
            sequence == last.sequence
            n == Len(sequence)
            l == net.recurrent_layer
            Delta(gradients, neuron, k) ==
                SumSeq([s \in 1..n |->
                          last.learning_rate * gradients[s][neuron]
                          * CombinedAt(P, sequence, s - 1)[k]])
        IN  /\ \A neuron \in 1..OutputCount, k \in 1..(InputCount + StateSize) :
                  l.output_tree.weights[neuron][k] =
                      P.output_weights[neuron][k]
                      + Delta(l.computed_output_gradients, neuron, k)
            /\ \A neuron \in 1..StateSize, k \in 1..(InputCount + StateSize) :
                  l.recurrent_tree.weights[neuron][k] =
                      P.recurrent_weights[neuron][k]
                      + Delta(l.computed_recurrent_gradients, neuron, k)

C10_Witness ==
    /\ Returned("train_one_sequence")
    /\ calls >= 2
    /\ Len(last.sequence) >= 2
    /\ net.recurrent_layer.prev_states[2] # Zeros(StateSize)
    /\ \A k \in 1..(InputCount + StateSize) :
          /\ Params(net).output_weights[1][k] # Params(last.entry).output_weights[1][k]
          /\ Params(net).recurrent_weights[1][k] # Params(last.entry).recurrent_weights[1][k]

\* C11: update_biases(learning_rate, n) adds to every output_tree bias the sum
\* over steps 0..n-1 of learning_rate * computed_output_gradients[step][neuron]
\* and changes nothing else; no phase of train_one_sequence touches the
\* recurrent_tree biases, which keep the values the constructor gave them.
C11_UpdateBiasesMovesOnlyOutputTreeBiases ==
    /\ Params(net).recurrent_biases = Zeros(StateSize)
    /\ Returned("train_one_sequence") =>
           LET before == last.trace[4].net
               after == last.trace[5].net
               l == before.recurrent_layer
               n == Len(last.sequence)
               Delta(neuron) ==
                   SumSeq([s \in 1..n |->
                             last.learning_rate * l.computed_output_gradients[s][neuron]])
           IN  /\ last.trace[5].phase = "update_biases"
               /\ after = [before EXCEPT !.recurrent_layer.output_tree.biases =
                               [neuron \in 1..OutputCount |->
                                   l.output_tree.biases[neuron] + Delta(neuron)]]
               /\ net = after
               /\ \A i \in 1..Len(last.trace) :
                      Params(last.trace[i].net).recurrent_biases
                          = Params(last.entry).recurrent_biases

C11_Witness ==
    /\ Returned("train_one_sequence")
    /\ calls >= 2
    /\ Len(last.sequence) >= 2
    /\ last.entry.recurrent_layer.output_tree.biases # Zeros(OutputCount)
    /\ \A s \in 1..Len(last.sequence) :
          net.recurrent_layer.computed_recurrent_gradients[s] # Zeros(StateSize)
    /\ Params(last.trace[5].net).output_biases # Params(last.trace[4].net).output_biases

\* C12: under any sequence of reset, forward_propagate, compute_gradients,
\* update_weights and update_biases calls on a RecurrentLayer, state keeps
\* length state_size and the scratch buffer length input_count + state_size;
\* right after a forward_propagate step the first state_size scratch entries are
\* the state the step started from and the rest are the step's input; reset
\* zeroes the state and changes nothing else (histories stay), so resetting a
\* layer that was just reset changes nothing.
C12_ShapesScratchAndReset ==
    LET l == net.recurrent_layer
        entry == last.entry.recurrent_layer
    IN  /\ Len(l.state) = StateSize
        /\ Len(l.combined_inputs_scratch) = InputCount + StateSize
        /\ last.op = "layer.forward_propagate" =>
               /\ SubSeq(l.combined_inputs_scratch, 1, StateSize) = entry.state
               /\ SubSeq(l.combined_inputs_scratch, StateSize + 1, StateSize + InputCount)
                      = last.sequence[1]
        /\ last.op = "layer.reset" =>
               /\ l.state = Zeros(StateSize)
               /\ net = [last.entry EXCEPT !.recurrent_layer.state = l.state]
               /\ l.prev_states = entry.prev_states
               /\ l.sequence_inputs = entry.sequence_inputs
               /\ LayerReset(l) = l

C12_Witness ==
    /\ last.op = "layer.reset"
    /\ ~panicked
    /\ last.entry.recurrent_layer.state # Zeros(StateSize)
    /\ Len(net.recurrent_layer.prev_states) >= 2
    /\ net.recurrent_layer.prev_states[2] # Zeros(StateSize)
    /\ SubSeq(net.recurrent_layer.combined_inputs_scratch, 1, StateSize)
          = net.recurrent_layer.prev_states[2]

====
